---- MODULE Spec2Model ----
(***************************************************************************)
(* Model of the trading-signal parser in src/signal_parser.py.             *)
(*                                                                         *)
(* Text is a sequence of one-character strings, so that strip, split,      *)
(* startswith, replace, lower, float() and the header regular expression   *)
(* are computed character by character as Python computes them.            *)
(* A float is carried as a fixed-point integer in units of 10^-FracDigits, *)
(* or as nan / +-inf; -0.0 and 0.0 are one value (they compare equal and   *)
(* neither is < 0 in Python).  Optional[T] is a sequence of length 0       *)
(* (None) or 1.                                                            *)
(***************************************************************************)
EXTENDS Integers, Sequences, FiniteSets, TLC

\* ------------------------------------------------------------------ bounds
\* number of fractional decimal digits a float value keeps
FracDigits == 2
\* largest number of blocks in a generated multi-block document
MaxBlocks == 2

\* -------------------------------------------------------- program constants
\* SignalParser.__init__(default_stop_percentage = 3.0)
DefaultStopPercentage == 3
\* parse_signal_text: "if len(lines) < 4: return None"
MinLines == 4

\* main: "test_price = 1000.0"
TestPrice == 1000

\* ---------------------------------------------------------- str primitives
NL == "\n"

\* characters str.strip() removes (of the characters used here)
IsSpace(c) == c \in {" ", "\t", "\n", "\r"}

IsDigit(c) == c \in {"0", "1", "2", "3", "4", "5", "6", "7", "8", "9"}

UpperLetters ==
  <<"A", "B", "C", "D", "E", "F", "G", "H", "I", "J", "K", "L", "M",
    "N", "O", "P", "Q", "R", "S", "T", "U", "V", "W", "X", "Y", "Z">>

LowerLetters ==
  <<"a", "b", "c", "d", "e", "f", "g", "h", "i", "j", "k", "l", "m",
    "n", "o", "p", "q", "r", "s", "t", "u", "v", "w", "x", "y", "z">>

IsUpper(c) == \E i \in 1..26 : UpperLetters[i] = c

\* str.lower() on one character
LowerChar(c) ==
  IF IsUpper(c) THEN LowerLetters[CHOOSE i \in 1..26 : UpperLetters[i] = c]
  ELSE c

\* str.lower()
Lower(s) == [i \in 1..Len(s) |-> LowerChar(s[i])]

\* str.strip(): from the first to the last character that is not whitespace
Strip(s) ==
  IF \A i \in 1..Len(s) : IsSpace(s[i]) THEN <<>>
  ELSE SubSeq(s,
              CHOOSE i \in 1..Len(s) :
                 ~IsSpace(s[i]) /\ \A j \in 1..(i - 1) : IsSpace(s[j]),
              CHOOSE i \in 1..Len(s) :
                 ~IsSpace(s[i]) /\ \A j \in (i + 1)..Len(s) : IsSpace(s[j]))

\* str.find(sep) + 1: position of the leftmost occurrence of sep in s, 0 if none
Find(s, sep) ==
  LET occ == {i \in 1..(Len(s) - Len(sep) + 1) : SubSeq(s, i, i + Len(sep) - 1) = sep}
  IN IF occ = {} THEN 0 ELSE CHOOSE i \in occ : \A j \in occ : i <= j

\* str.split(sep) for a non-empty separator; p is where sep is found first
RECURSIVE Split(_, _)
SplitAt(s, sep, p) ==
  IF p = 0 THEN <<s>>
  ELSE <<SubSeq(s, 1, p - 1)>> \o Split(SubSeq(s, p + Len(sep), Len(s)), sep)

Split(s, sep) == SplitAt(s, sep, Find(s, sep))

\* str.replace(old, ''): every non-overlapping occurrence, left to right
RECURSIVE Remove(_, _)
RemoveAt(s, old, p) ==
  IF p = 0 THEN s
  ELSE SubSeq(s, 1, p - 1) \o Remove(SubSeq(s, p + Len(old), Len(s)), old)

Remove(s, old) == RemoveAt(s, old, Find(s, old))

\* str.startswith(prefix)
StartsWith(s, prefix) ==
  Len(s) >= Len(prefix) /\ SubSeq(s, 1, Len(prefix)) = prefix

\* Optional[T]: None
None == <<>>

\* ------------------------------------------------------------------ floats
RECURSIVE Pow10(_)
Pow10(n) == IF n <= 0 THEN 1 ELSE 10 * Pow10(n - 1)

Scale == Pow10(FracDigits)

Fin(n) == [k |-> "fin", v |-> n]
NaN == [k |-> "nan", v |-> 0]
Inf(sgn) == [k |-> "inf", v |-> sgn]

\* the float of a decimal literal written without a fraction
Num(n) == Fin(n * Scale)

DigitVal(c) ==
  CHOOSE d \in 0..9 : <<"0", "1", "2", "3", "4", "5", "6", "7", "8", "9">>[d + 1] = c

AllDigits(s) == \A i \in 1..Len(s) : IsDigit(s[i])

RECURSIVE DigitsToNat(_)
DigitsToNat(s) ==
  IF s = <<>> THEN 0
  ELSE 10 * DigitsToNat(SubSeq(s, 1, Len(s) - 1)) + DigitVal(s[Len(s)])

W_inf == <<"i", "n", "f">>
W_infinity == <<"i", "n", "f", "i", "n", "i", "t", "y">>
W_nan == <<"n", "a", "n">>

\* the float of the digits ip.fp times 10^eVal, signed
Decimal(sgn, digits, shift) ==
  IF shift >= 0 THEN <<Fin(sgn * digits * Pow10(shift))>>
  ELSE <<Fin(sgn * (digits \div Pow10(-shift)))>>

\* ip '.' fp with an exponent that was absent or well-formed (eOk)
FloatParts(sgn, ip, fp, eOk, eVal) ==
  IF eOk /\ AllDigits(ip) /\ AllDigits(fp) /\ Len(ip) + Len(fp) > 0
  THEN Decimal(sgn, DigitsToNat(ip \o fp), FracDigits + eVal - Len(fp))
  ELSE <<>>

\* mantissa split at its first '.', found at dot
FloatMantissa(sgn, mant, dot, eOk, eVal) ==
  FloatParts(sgn,
             IF dot = 0 THEN mant ELSE SubSeq(mant, 1, dot - 1),
             IF dot = 0 THEN <<>> ELSE SubSeq(mant, dot + 1, Len(mant)),
             eOk, eVal)

\* the exponent digits eDigits with sign eSgn, present when hasExp
FloatExponent(sgn, mant, hasExp, eSgn, eDigits) ==
  FloatMantissa(sgn, mant, Find(mant, <<".">>),
                ~hasExp \/ (Len(eDigits) > 0 /\ AllDigits(eDigits)),
                IF hasExp /\ AllDigits(eDigits) THEN eSgn * DigitsToNat(eDigits) ELSE 0)

\* the text after 'e'
FloatExpText(sgn, mant, hasExp, expo) ==
  FloatExponent(sgn, mant, hasExp,
                IF Len(expo) > 0 /\ expo[1] = "-" THEN -1 ELSE 1,
                IF Len(expo) > 0 /\ expo[1] \in {"+", "-"} THEN Tail(expo) ELSE expo)

\* an unsigned body, low its lower-case form, ePos where 'e' stands in it
FloatBody(sgn, body, low, ePos) ==
  IF low = W_inf \/ low = W_infinity THEN <<Inf(sgn)>>
  ELSE IF low = W_nan THEN <<NaN>>
  ELSE FloatExpText(sgn,
                    IF ePos = 0 THEN body ELSE SubSeq(body, 1, ePos - 1),
                    ePos # 0,
                    IF ePos = 0 THEN <<>> ELSE SubSeq(body, ePos + 1, Len(body)))

FloatUnsigned(sgn, body) == FloatBody(sgn, body, Lower(body), Find(Lower(body), <<"e">>))

\* a text without surrounding whitespace
FloatStripped(s) ==
  FloatUnsigned(IF Len(s) > 0 /\ s[1] = "-" THEN -1 ELSE 1,
                IF Len(s) > 0 /\ s[1] \in {"+", "-"} THEN Tail(s) ELSE s)

\* float(str): None (ValueError) or the value.  Grammar: surrounding
\* whitespace, optional sign, then inf / infinity / nan in any case, or
\* digits with an optional '.' and an optional exponent.
float(raw) == FloatStripped(Strip(raw))

\* unary minus on a float
Neg(x) == IF x.k = "nan" THEN x ELSE [x EXCEPT !.v = -x.v]

\* abs() on a float
Abs(x) == IF x.v < 0 THEN Neg(x) ELSE x

\* x < 0 on a float (False for nan)
LtZero(x) == x.k # "nan" /\ x.v < 0

\* --------------------------------------------------------------- literals
W_Entry == <<"E", "n", "t", "r", "y", ":">>
W_Target == <<"T", "a", "r", "g", "e", "t", ":">>
W_Stop == <<"S", "t", "o", "p", ":">>
W_LONG == <<"L", "O", "N", "G">>
W_SHORT == <<"S", "H", "O", "R", "T">>
W_market == <<"m", "a", "r", "k", "e", "t">>
W_now == <<"n", "o", "w">>
W_pct == <<"%">>

\* ------------------------------------------------------- parse_signal_text
\* [line.strip() for line in raw if line.strip()]
TrimLines(raw) ==
  SelectSeq([i \in 1..Len(raw) |-> Strip(raw[i])], LAMBDA l : l # <<>>)

\* lines = [line.strip() for line in text.strip().split('\n') if line.strip()]
CleanLines(text) == TrimLines(Split(Strip(text), <<NL>>))

IsSymChar(c) == IsUpper(c) \/ IsDigit(c)

\* IsSymbol with the pattern [A-Z0-9/]+ in place of [A-Z0-9]+/[A-Z0-9]+
IsSymbolAnySlashes(s) ==
  /\ \E p \in 1..Len(s) : s[p] = "/"
  /\ \A i \in 1..Len(s) : s[i] = "/" \/ IsSymChar(s[i])

\* [A-Z0-9]+/[A-Z0-9]+ matched against the whole of s
IsSymbol(s) ==
  \E p \in 2..(Len(s) - 1) :
     /\ s[p] = "/"
     /\ \A i \in 1..Len(s) : i # p => IsSymChar(s[i])

\* HeaderMatch with the pattern's closing '$' left out
HeaderMatchNoEnd(first_line) ==
  LET n == Len(first_line)
      cuts == {c \in (1..n) \X (1..n) :
                 /\ c[1] < c[2]
                 /\ IsSymbol(SubSeq(first_line, 1, c[1]))
                 /\ \A i \in (c[1] + 1)..c[2] : IsSpace(first_line[i])
                 /\ \/ StartsWith(SubSeq(first_line, c[2] + 1, n), W_LONG)
                    \/ StartsWith(SubSeq(first_line, c[2] + 1, n), W_SHORT)}
  IN IF cuts = {} THEN <<>>
     ELSE LET cut == CHOOSE c \in cuts : TRUE
              rest == SubSeq(first_line, cut[2] + 1, n)
          IN <<[symbol |-> SubSeq(first_line, 1, cut[1]),
                direction |-> IF StartsWith(rest, W_LONG) THEN W_LONG ELSE W_SHORT]>>

\* where the symbol ends and where the direction starts, for each way the
\* pattern matches; a symbol holds no whitespace, so there is at most one
HeaderCuts(first_line) ==
  {c \in (1..Len(first_line)) \X (1..Len(first_line)) :
     /\ c[1] < c[2]
     /\ IsSymbol(SubSeq(first_line, 1, c[1]))
     /\ \A i \in (c[1] + 1)..c[2] : IsSpace(first_line[i])
     /\ SubSeq(first_line, c[2] + 1, Len(first_line)) \in {W_LONG, W_SHORT}}

\* group(1) and group(2) of the match
HeaderGroups(first_line, cut) ==
  [symbol |-> SubSeq(first_line, 1, cut[1]),
   direction |-> SubSeq(first_line, cut[2] + 1, Len(first_line))]

\* re.match(r'^([A-Z0-9]+/[A-Z0-9]+)\s+(LONG|SHORT)$', first_line):
\* None, or the two groups
HeaderMatch(first_line) ==
  IF HeaderCuts(first_line) = {} THEN <<>>
  ELSE <<HeaderGroups(first_line, CHOOSE c \in HeaderCuts(first_line) : TRUE)>>

\* "return -percentage", or None after ValueError
NegOpt(percentage) == IF percentage = <<>> THEN <<>> ELSE <<Neg(percentage[1])>>

\* _parse_stop past "stop_str = stop_str.strip()"
ParseStopStripped(s) ==
  IF Find(s, W_pct) # 0 THEN NegOpt(float(Remove(s, W_pct))) ELSE float(s)

\* _parse_stop(stop_str): None, or the stop as a float
_parse_stop(stop_str) == ParseStopStripped(Strip(stop_str))

\* Fields0 with stop starting at the negated default percentage
Fields0DefaultStop ==
  [entry |-> None, target |-> None,
   stop |-> <<Neg(Num(DefaultStopPercentage))>>, returned |-> FALSE]

\* the locals of parse_signal_text before the loop over lines[1:]
Fields0 == [entry |-> None, target |-> None, stop |-> None, returned |-> FALSE]

\* StoreOrReturn with "continue" in place of "return None"
StoreOrSkip(f, field, value) ==
  IF value = <<>> THEN f
  ELSE [f EXCEPT ![field] = value]

\* a parsed Target or Stop value: stored, or "return None" when it is None
StoreOrReturn(f, field, value) ==
  IF value = <<>> THEN [f EXCEPT !.returned = TRUE]
  ELSE [f EXCEPT ![field] = value]

\* one iteration of "for line in lines[1:]"; returned marks "return None"
FieldStep(f, line) ==
  IF StartsWith(line, W_Entry)
  THEN [f EXCEPT !.entry = <<Strip(Remove(line, W_Entry))>>]
  ELSE IF StartsWith(line, W_Target)
  THEN StoreOrReturn(f, "target", float(Strip(Remove(line, W_Target))))
  ELSE IF StartsWith(line, W_Stop)
  THEN StoreOrReturn(f, "stop", _parse_stop(Strip(Remove(line, W_Stop))))
  ELSE f

\* the loop over lines[1:], left at the first "return None"
RECURSIVE FieldLoop(_, _)
FieldLoop(f, rest) ==
  IF rest = <<>> \/ f.returned THEN f
  ELSE FieldLoop(FieldStep(f, Head(rest)), Tail(rest))

\* "if entry is None or target is None or stop is None: return None"
Incomplete(f) == f.entry = None \/ f.target = None \/ f.stop = None

Returned(sig) == [raised |-> FALSE, ret |-> sig]
Raised == [raised |-> TRUE, ret |-> None]

\* "if signal.stop < 0: signal.stop_percentage = abs(signal.stop)"
StopPercentage(stop) ==
  IF stop # None /\ LtZero(stop[1]) THEN <<Abs(stop[1])>> ELSE None

\* Signal(...) with the "additional fields" set
SignalOf(m, f, text, entry_numeric) ==
  [symbol |-> m.symbol,
   direction |-> m.direction,
   entry |-> f.entry[1],
   target |-> f.target,
   stop |-> f.stop,
   entry_numeric |-> entry_numeric,
   stop_percentage |-> StopPercentage(f.stop),
   original_text |-> text]

\* "if entry.lower() in ['market', 'now']"
IsSymbolicEntry(entry) == Lower(entry) \in {W_market, W_now}

\* the Signal, or None when float(entry) raised ValueError
SignalOrNone(m, f, text, symbolic, entry_float) ==
  IF symbolic THEN <<SignalOf(m, f, text, <<>>)>>
  ELSE IF entry_float = <<>> THEN <<>>
  ELSE <<SignalOf(m, f, text, entry_float)>>

\* MakeSignal with "except ValueError: pass" in place of "return None"
MakeSignalKeepBadEntry(m, f, text) ==
  IF IsSymbolicEntry(f.entry[1]) THEN <<SignalOf(m, f, text, <<>>)>>
  ELSE <<SignalOf(m, f, text, float(f.entry[1]))>>

\* lines 71-94: Signal(...) followed by the "additional fields"; None when
\* the entry is neither market/now nor a float.  target and stop hold the
\* loop's locals, which are Optional there.
MakeSignal(m, f, text) ==
  SignalOrNone(m, f, text, IsSymbolicEntry(f.entry[1]), float(f.entry[1]))

\* the returned Signal, or the TypeError of "signal.stop < 0" on None
Finish(sig, f) ==
  IF sig = <<>> THEN Returned(<<>>)
  ELSE IF f.stop = <<>> THEN Raised
  ELSE Returned(sig)

\* past the loop: the None check, then the Signal; entry.lower() on None
\* raises AttributeError
Assemble(m, f, text) ==
  IF f.returned THEN Returned(<<>>)
  ELSE IF Incomplete(f) THEN Returned(<<>>)
  ELSE IF f.entry = <<>> THEN Raised
  ELSE Finish(MakeSignal(m, f, text), f)

\* past the header match
ParseFields(m, rest, text) ==
  IF m = <<>> THEN Returned(<<>>) ELSE Assemble(m[1], FieldLoop(Fields0, rest), text)

\* past the cleaning of the text; lines[0] on an empty list raises IndexError
ParseLines(lines, text, minLines) ==
  IF Len(lines) < minLines THEN Returned(<<>>)
  ELSE IF lines = <<>> THEN Raised
  ELSE ParseFields(HeaderMatch(lines[1]), Tail(lines), text)

\* the body of the try block
ParseTry(text, minLines) == ParseLines(CleanLines(text), text, minLines)

\* "except Exception as e: ... return None"
Catch(r) == IF r.raised THEN Returned(<<>>) ELSE r

\* parse_signal_text without the length guard and without the except clause
parse_signal_text_unguarded(text) == ParseTry(text, 0)

\* parse_signal_text(text)
parse_signal_text(text) == Catch(ParseTry(text, MinLines))

\* ------------------------------------------------------- float arithmetic
\* n / d (d > 0) rounded to the nearest integer, ties to even: the rounding
\* every float operation applies to its exact result
RoundDiv(n, d) ==
  IF 2 * (n % d) < d THEN n \div d
  ELSE IF 2 * (n % d) > d THEN (n \div d) + 1
  ELSE (n \div d) + ((n \div d) % 2)

Sign(x) == IF x.v < 0 THEN -1 ELSE 1

\* a * b on floats
FMul(a, b) ==
  IF a.k = "nan" \/ b.k = "nan" THEN NaN
  ELSE IF a.k = "fin" /\ b.k = "fin" THEN Fin(RoundDiv(a.v * b.v, Scale))
  ELSE IF a.v = 0 \/ b.v = 0 THEN NaN
  ELSE Inf(Sign(a) * Sign(b))

\* a - b on floats
FSub(a, b) ==
  IF a.k = "nan" \/ b.k = "nan" THEN NaN
  ELSE IF a.k = "fin" /\ b.k = "fin" THEN Fin(a.v - b.v)
  ELSE IF a.k = "inf" /\ b.k = "inf" THEN (IF a.v = b.v THEN NaN ELSE a)
  ELSE IF a.k = "inf" THEN a
  ELSE Neg(b)

\* a + b on floats
FAdd(a, b) == FSub(a, Neg(b))

\* a / b on floats, for a finite divisor above zero (100, or a count)
FDiv(a, b) ==
  IF a.k = "fin" THEN Fin(RoundDiv(a.v * Scale, b.v)) ELSE a

\* a < b on floats (False when either is nan)
FLt(a, b) ==
  /\ a.k # "nan"
  /\ b.k # "nan"
  /\ IF a.k = b.k THEN a.v < b.v
     ELSE IF a.k = "inf" THEN a.v < 0
     ELSE b.v > 0

\* a == b on floats (False when either is nan)
FEq(a, b) == a.k # "nan" /\ a = b

\* a <= b, a >= b on floats
FLe(a, b) == FLt(a, b) \/ FEq(a, b)
FGe(a, b) == FLe(b, a)

\* -------------------------------------------------- calculate_stop_price
\* calculate_stop_price with the LONG formula for both directions
calculate_stop_price_long_only(signal, entry_price) ==
  IF LtZero(signal.stop[1])
  THEN FMul(entry_price, FSub(Num(1), FDiv(Abs(signal.stop[1]), Num(100))))
  ELSE signal.stop[1]

\* calculate_stop_price(signal, entry_price)
calculate_stop_price(signal, entry_price) ==
  IF LtZero(signal.stop[1])
  THEN IF signal.direction = W_LONG
       THEN FMul(entry_price, FSub(Num(1), FDiv(Abs(signal.stop[1]), Num(100))))
       ELSE FMul(entry_price, FAdd(Num(1), FDiv(Abs(signal.stop[1]), Num(100))))
  ELSE signal.stop[1]

\* ------------------------------------------------------- validate_signal
M_InvalidEntry == "Invalid entry price"
M_TargetLong == "Target should be above entry for LONG positions"
M_TargetShort == "Target should be below entry for SHORT positions"
M_StopLong == "Stop loss should be below entry for LONG positions"
M_StopShort == "Stop loss should be above entry for SHORT positions"
M_StopShortAbsolute == "Stop loss should be below entry for SHORT positions"

\* "if signal.entry_numeric:": None and 0.0 are false, nan is true
Truthy(opt) == opt # <<>> /\ opt # <<Fin(0)>>

\* lines 168-172: the errors list
EntryErrors(signal) ==
  IF ~IsSymbolicEntry(signal.entry) /\ signal.entry_numeric = <<>>
  THEN <<M_InvalidEntry>>
  ELSE <<>>

\* lines 174-179: target against entry
TargetWarnings(signal) ==
  IF ~Truthy(signal.entry_numeric) THEN <<>>
  ELSE IF signal.direction = W_LONG /\ FLe(signal.target[1], signal.entry_numeric[1])
  THEN <<M_TargetLong>>
  ELSE IF signal.direction = W_SHORT /\ FGe(signal.target[1], signal.entry_numeric[1])
  THEN <<M_TargetShort>>
  ELSE <<>>

\* lines 187-191 and 194-198: stop against signal.entry_numeric, with the
\* message shortMsg for a SHORT signal
StopWarnings(signal, stop, shortMsg) ==
  IF signal.entry_numeric = <<>> THEN <<>>
  ELSE IF signal.direction = W_LONG /\ FGe(stop, signal.entry_numeric[1])
  THEN <<M_StopLong>>
  ELSE IF signal.direction = W_SHORT /\ FLe(stop, signal.entry_numeric[1])
  THEN <<shortMsg>>
  ELSE <<>>

\* lines 181-198: the stop branch, given the errors and warnings so far
ValidateStop(signal, entry_price, errors, warnings) ==
  IF LtZero(signal.stop[1])
  THEN [valid |-> errors = <<>>,
        errors |-> errors,
        warnings |-> warnings \o StopWarnings(signal, calculate_stop_price(signal, entry_price), M_StopShort),
        calculated_stop |-> <<calculate_stop_price(signal, entry_price)>>]
  ELSE [valid |-> errors = <<>>,
        errors |-> errors,
        warnings |-> warnings \o StopWarnings(signal, signal.stop[1], M_StopShortAbsolute),
        calculated_stop |-> <<>>]

\* validate_signal(signal, entry_price)
validate_signal(signal, entry_price) ==
  ValidateStop(signal, entry_price, EntryErrors(signal), TargetWarnings(signal))

\* ------------------------------------------------------ test_parser, main
\* the loop of parse_file over the blocks of a file
RECURSIVE ParseBlocks(_)
ParseBlocks(blocks) ==
  IF blocks = <<>> THEN <<>>
  ELSE (IF Strip(Head(blocks)) = <<>> THEN <<>> ELSE parse_signal_text(Head(blocks)).ret)
       \o ParseBlocks(Tail(blocks))

\* parse_file(filename) as a value: the signals of a file, given as None
\* (no such file) or its content
parse_file(file) ==
  IF file = <<>> THEN <<>> ELSE ParseBlocks(Split(file[1], <<NL, NL>>))

\* results['validation_results'] over all_signals
Validations(all_signals, test_price) ==
  [i \in 1..Len(all_signals) |->
     [signal |-> all_signals[i],
      validation |-> validate_signal(all_signals[i], test_price)]]

\* how many validations have valid = flag
CountValid(validation_results, flag) ==
  Cardinality({i \in 1..Len(validation_results) :
                 validation_results[i].validation.valid = flag})

\* the results dict of test_parser
TestResults(signals1, signals2, validation_results) ==
  [signals_txt |-> signals1,
   newsignal_txt |-> signals2,
   total_signals |-> Len(signals1) + Len(signals2),
   successful_parses |-> CountValid(validation_results, TRUE),
   failed_parses |-> CountValid(validation_results, FALSE),
   validation_results |-> validation_results]

\* test_parser past the two parse_file calls
TestSignals(signals1, signals2, test_price) ==
  TestResults(signals1, signals2, Validations(signals1 \o signals2, test_price))

\* test_parser(test_price) over signals.txt and newsignal.txt
test_parser(signals_txt, newsignal_txt, test_price) ==
  TestSignals(parse_file(signals_txt), parse_file(newsignal_txt), test_price)

\* main: the success rate printed, None when it prints "No signals found"
SuccessRate(results) ==
  IF results.total_signals > 0
  THEN <<FMul(FDiv(Num(results.successful_parses), Num(results.total_signals)), Num(100))>>
  ELSE <<>>

\* ------------------------------------------------------------------ inputs
\* '\n'.join(lines), and sep.join(parts) in general
RECURSIVE Join(_, _)
Join(parts, sep) ==
  IF parts = <<>> THEN <<>>
  ELSE IF Len(parts) = 1 THEN parts[1]
  ELSE parts[1] \o sep \o Join(Tail(parts), sep)

\* "Key: value"
KV(key, value) == key \o <<" ">> \o value

SYM_AB == <<"A", "/", "B">>
SYM_XY == <<"X", "/", "Y">>
H_AB_LONG == SYM_AB \o <<" ">> \o W_LONG
H_XY_SHORT == SYM_XY \o <<" ">> \o W_SHORT

\* first lines: two well-formed ones, then the malformed shapes
GoodHeaders == {H_AB_LONG, H_XY_SHORT, <<"A", "1", "/", "B", "\t", " ">> \o W_SHORT}

BadHeaders ==
  { <<"A", "B", " ">> \o W_LONG,                       \* no separator
    SYM_AB \o <<" ", "B", "U", "Y">>,                  \* BUY
    <<"a", "/", "b", " ">> \o W_LONG,                  \* lower-case symbol
    SYM_AB \o <<" ", "l", "o", "n", "g">>,             \* lower-case direction
    SYM_AB \o <<"/", "C", " ">> \o W_LONG,             \* two separators
    <<"/", "B", " ">> \o W_LONG,                       \* empty base
    <<"A", "/", " ">> \o W_LONG,                       \* empty quote
    SYM_AB \o W_LONG,                                  \* no whitespace
    SYM_AB \o <<" ">> \o W_LONG \o <<"E", "R">>,       \* text after the direction
    <<"x", " ">> \o H_AB_LONG,                         \* text before the symbol
    SYM_AB \o <<" ">> \o W_LONG \o <<" ", "x">>,
    KV(W_Entry, <<"1", "0">>) }                        \* no header line at all

V_10 == <<"1", "0">>
V_12 == <<"1", "2">>
V_9 == <<"9">>

\* the Entry lines of a block, in order
EntryParts ==
  { <<>>,
    <<KV(W_Entry, V_10)>>,
    <<KV(W_Entry, <<"1", "0", ".", "5">>)>>,
    <<KV(W_Entry, W_market)>>,
    <<KV(W_Entry, <<"N", "O", "W">>)>>,
    <<KV(W_Entry, <<"s", "o", "o", "n">>)>>,
    <<KV(W_Entry, <<"s", "o", "o", "n">>), KV(W_Entry, V_10)>>,
    <<KV(W_Entry, V_10), KV(W_Entry, <<"s", "o", "o", "n">>)>>,
    <<KV(<<"e", "n", "t", "r", "y", ":">>, V_10)>> }

\* the Target lines of a block, in order
TargetParts ==
  { <<>>,
    <<KV(W_Target, V_12)>>,
    <<KV(W_Target, <<"h", "i", "g", "h">>)>>,
    <<KV(W_Target, <<"h", "i", "g", "h">>), KV(W_Target, V_12)>>,
    <<KV(W_Target, W_nan)>> }

\* the Stop lines of a block, in order
StopParts ==
  { <<>>,
    <<KV(W_Stop, V_9)>>,
    <<KV(W_Stop, <<"5", "%">>)>>,
    <<KV(W_Stop, <<"2", ".", "5", "%">>)>>,
    <<KV(W_Stop, <<"%", "5">>)>>,
    <<KV(W_Stop, <<"5", "%", "%">>)>>,
    <<KV(W_Stop, <<"-", "5">>)>>,
    <<KV(W_Stop, <<"-", "5", "%">>)>>,
    <<KV(W_Stop, <<"0", "%">>)>>,
    <<KV(W_Stop, <<"0">>)>>,
    <<KV(W_Stop, <<"b", "a", "d">>)>>,
    <<KV(W_Stop, <<"b", "a", "d">>), KV(W_Stop, V_9)>>,
    <<KV(W_Stop, <<"%">>)>> }

L_TargetReached == <<"T", "a", "r", "g", "e", "t", " ", "r", "e", "a", "c", "h", "e", "d">>
L_note == <<"n", "o", "t", "e">>

\* lines that carry no field
ExtraParts == {<<>>, <<L_TargetReached>>, <<L_note>>}

Body_9 == <<KV(W_Entry, V_10), KV(W_Target, V_12), KV(W_Stop, V_9)>>
Body_5pct == <<KV(W_Entry, W_market), KV(W_Target, V_12), KV(W_Stop, <<"5", "%">>)>>

\* one well-formed header over every combination of field lines
FieldBlocks ==
  { Join(<<H_AB_LONG>> \o e \o t \o s \o x, <<NL>>) :
      e \in EntryParts, t \in TargetParts, s \in StopParts, x \in ExtraParts }

\* every header over well-formed field lines
HeaderBlocks ==
  { Join(<<h>> \o b, <<NL>>) : h \in GoodHeaders \cup BadHeaders, b \in {Body_9, Body_5pct} }

\* the texts of test_edge_cases.py test 12, and blocks padded as its
\* triple-quoted literals are
BlankTexts == {<<>>, <<" ", " ", " ">>, <<NL, NL, NL>>, <<" ", " ", NL, " ", " ", NL, " ", " ">>}

PaddedBlocks ==
  { <<NL>> \o Join(<<h>> \o Body_9, <<NL, " ">>) \o <<" ", NL>> : h \in {H_AB_LONG, <<"A", "B", " ">> \o W_LONG} }

B_good_AB == Join(<<H_AB_LONG>> \o Body_9, <<NL>>)
B_good_XY == Join(<<H_XY_SHORT, KV(W_Entry, W_now), KV(W_Target, <<"1", "5">>),
                    KV(W_Stop, <<"2", ".", "5", "%">>)>>, <<NL>>)
B_bad_target == Join(<<H_XY_SHORT, KV(W_Entry, V_10), KV(W_Target, <<"l", "o", "w">>),
                       KV(W_Stop, V_9)>>, <<NL>>)
B_report == Join(<<H_XY_SHORT>> \o Body_5pct \o <<L_TargetReached>>, <<NL>>)

\* the blocks multi-block documents are made of
BatchBlocks == {B_good_AB, B_good_XY, B_bad_target, B_report, <<" ">>}

\* what stands between two blocks: an empty line, two empty lines, a line of
\* one space
Separators == {<<NL, NL>>, <<NL, NL, NL>>, <<NL, " ", NL>>}

RECURSIVE Batches(_)
Batches(n) ==
  IF n = 1 THEN BatchBlocks
  ELSE { d \o sep \o b : d \in Batches(n - 1), sep \in Separators, b \in BatchBlocks }

Documents ==
  FieldBlocks \cup HeaderBlocks \cup BlankTexts \cup PaddedBlocks
    \cup UNION { Batches(n) : n \in 2..MaxBlocks }

\* --------------------------------------------------------------------- state
VARIABLES
  content,        \* the text handed in: the file's content, or the text argument
  exists,         \* os.path.exists(filename)
  pc,             \* "start", "loop" (inside parse_file's for loop), "done"
  signal_blocks,  \* parse_file: content.split('\n\n')
  idx,            \* parse_file: index of the next block of signal_blocks
  signals,        \* parse_file: the list being returned
  failed,         \* parse_file: the blocks printed as "Failed to parse signal block"
  block,          \* the text of the latest parse_signal_text call
  result,         \* its outcome [raised, ret]
  calls,          \* number of parse_signal_text calls made
  line_pc,        \* parse_signal_text line by line: "start", "lines", "returned"
  match,          \* its header match
  fields,         \* its locals entry, target, stop
  rest,           \* the lines its loop has not yet read
  entry_price,    \* the entry_price argument of the latest call taking one
  stop_price,     \* what calculate_stop_price returned
  validation,     \* what validate_signal returned
  newsignal,      \* newsignal.txt: None, or its content
  results,        \* what test_parser returned
  success_rate    \* main: the success rate printed

vars == <<content, exists, pc, signal_blocks, idx, signals, failed, block, result, calls,
          line_pc, match, fields, rest,
          entry_price, stop_price, validation, newsignal, results, success_rate>>

\* the locals of the line-by-line run
line_vars == <<line_pc, match, fields, rest>>

\* the state of the calls on a Signal and of main
call_vars == <<entry_price, stop_price, validation, newsignal, results, success_rate>>

Init ==
  /\ content \in Documents
  /\ exists \in BOOLEAN
  /\ pc = "start"
  /\ signal_blocks = <<>>
  /\ idx = 1
  /\ signals = <<>>
  /\ failed = <<>>
  /\ block = <<>>
  /\ result = Returned(None)
  /\ calls = 0
  /\ line_pc = "start"
  /\ match = None
  /\ fields = Fields0
  /\ rest = <<>>
  /\ entry_price = None
  /\ stop_price = None
  /\ validation = None
  /\ newsignal = None
  /\ results = None
  /\ success_rate = None

\* a direct call parser.parse_signal_text(content), as the test files make
CallParseSignalText ==
  /\ pc = "start"
  /\ block' = content
  /\ result' = parse_signal_text(content)
  /\ calls' = calls + 1
  /\ pc' = "done"
  /\ UNCHANGED <<content, exists, signal_blocks, idx, signals, failed>>
  /\ UNCHANGED <<line_vars, call_vars>>

\* parse_file: "if not os.path.exists(filename): return signals"
FileNotFound ==
  /\ pc = "start"
  /\ ~exists
  /\ pc' = "done"
  /\ UNCHANGED <<content, exists, signal_blocks, idx, signals, failed, block, result, calls>>
  /\ UNCHANGED <<line_vars, call_vars>>

\* ReadAndSplit splitting on '\n' in place of '\n\n'
ReadAndSplitOnNewline ==
  /\ pc = "start"
  /\ exists
  /\ signal_blocks' = Split(content, <<NL>>)
  /\ idx' = 1
  /\ pc' = "loop"
  /\ UNCHANGED <<content, exists, signals, failed, block, result, calls>>
  /\ UNCHANGED <<line_vars, call_vars>>

\* parse_file: read the file and split it on '\n\n'
ReadAndSplit ==
  /\ pc = "start"
  /\ exists
  /\ signal_blocks' = Split(content, <<NL, NL>>)
  /\ idx' = 1
  /\ pc' = "loop"
  /\ UNCHANGED <<content, exists, signals, failed, block, result, calls>>
  /\ UNCHANGED <<line_vars, call_vars>>

\* parse_file: one iteration over a block with "if block.strip()" false
SkipBlank ==
  /\ pc = "loop"
  /\ idx <= Len(signal_blocks)
  /\ Strip(signal_blocks[idx]) = <<>>
  /\ idx' = idx + 1
  /\ UNCHANGED <<content, exists, pc, signal_blocks, signals, failed, block, result, calls>>
  /\ UNCHANGED <<line_vars, call_vars>>

\* the outcome r of parsing block b: "signals.append(signal)" or the print
Collect(b, r) ==
  /\ block' = b
  /\ result' = r
  /\ signals' = signals \o r.ret
  /\ failed' = IF r.ret = <<>> THEN Append(failed, b) ELSE failed

\* ParseBlock leaving the loop at the first block that fails to parse
ParseBlockStopOnFailure ==
  /\ pc = "loop"
  /\ idx <= Len(signal_blocks)
  /\ Strip(signal_blocks[idx]) # <<>>
  /\ Collect(signal_blocks[idx], parse_signal_text(signal_blocks[idx]))
  /\ pc' = IF result'.ret = <<>> THEN "done" ELSE pc
  /\ calls' = calls + 1
  /\ idx' = idx + 1
  /\ UNCHANGED <<content, exists, signal_blocks>>
  /\ UNCHANGED <<line_vars, call_vars>>

\* parse_file: one iteration over a non-blank block
ParseBlock ==
  /\ pc = "loop"
  /\ idx <= Len(signal_blocks)
  /\ Strip(signal_blocks[idx]) # <<>>
  /\ Collect(signal_blocks[idx], parse_signal_text(signal_blocks[idx]))
  /\ calls' = calls + 1
  /\ idx' = idx + 1
  /\ UNCHANGED <<content, exists, pc, signal_blocks>>
  /\ UNCHANGED <<line_vars, call_vars>>

\* parse_file: the loop is exhausted, "return signals"
ReturnSignals ==
  /\ pc = "loop"
  /\ idx > Len(signal_blocks)
  /\ pc' = "done"
  /\ UNCHANGED <<content, exists, signal_blocks, idx, signals, failed, block, result, calls>>
  /\ UNCHANGED <<line_vars, call_vars>>

Next ==
  \/ CallParseSignalText
  \/ FileNotFound
  \/ ReadAndSplit
  \/ SkipBlank
  \/ ParseBlock
  \/ ReturnSignals

Spec == Init /\ [][Next]_vars

\* ------------------------------------------- parse_signal_text line by line
parse_vars == <<content, exists, pc, signal_blocks, idx, signals, failed>>

\* lines 33-44 on the cleaned lines: "return None" below four lines or on a
\* header that does not match, else the loop starts at lines[1:]
BeginWith(lines, m) ==
  IF Len(lines) < MinLines \/ m = None
  THEN /\ line_pc' = "returned"
       /\ UNCHANGED <<match, rest>>
  ELSE /\ line_pc' = "lines"
       /\ match' = m
       /\ rest' = Tail(lines)

\* parse_signal_text(content) up to the loop over lines[1:]
BeginLines ==
  /\ line_pc = "start"
  /\ block' = content
  /\ calls' = calls + 1
  /\ BeginWith(CleanLines(content),
               IF CleanLines(content) = <<>> THEN None ELSE HeaderMatch(CleanLines(content)[1]))
  /\ UNCHANGED <<parse_vars, result, fields, call_vars>>

\* one iteration of "for line in lines[1:]"
ReadLine ==
  /\ line_pc = "lines"
  /\ rest # <<>>
  /\ fields' = FieldStep(fields, Head(rest))
  /\ rest' = Tail(rest)
  /\ line_pc' = IF fields'.returned THEN "returned" ELSE "lines"
  /\ UNCHANGED <<parse_vars, block, result, calls, match, call_vars>>

\* lines 71-98: past the loop
EndOfLines ==
  /\ line_pc = "lines"
  /\ rest = <<>>
  /\ result' = Catch(Assemble(match[1], fields, content))
  /\ line_pc' = "returned"
  /\ UNCHANGED <<parse_vars, block, calls, match, fields, rest, call_vars>>

NextLines ==
  \/ BeginLines
  \/ ReadLine
  \/ EndOfLines

\* a text handed to parse_signal_text directly: no file is involved
InitLines == Init /\ exists

SpecLines == InitLines /\ [][NextLines]_vars

\* ------------------------------------------- calls on a Signal, and main
\* the entry_price arguments: the smallest positive float, and prices
\* below, at and above the entries of the blocks
TestPrices == {Fin(1), Num(5), Num(10), Num(12)}

\* newsignal.txt: absent, one good block, one block that fails to parse
SecondFiles == {None, <<B_good_XY>>, <<B_bad_target>>}

\* parser.calculate_stop_price(signal, entry_price) on a parsed Signal
CalculateStopPrice ==
  /\ pc = "done"
  /\ result.ret # None
  /\ entry_price = None
  /\ \E e \in TestPrices :
       /\ entry_price' = <<e>>
       /\ stop_price' = <<calculate_stop_price(result.ret[1], e)>>
  /\ UNCHANGED <<parse_vars, block, result, calls, line_vars,
                 validation, newsignal, results, success_rate>>

\* parser.validate_signal(signal, entry_price) on a parsed Signal
ValidateSignal ==
  /\ pc = "done"
  /\ result.ret # None
  /\ entry_price = None
  /\ \E e \in TestPrices :
       /\ entry_price' = <<e>>
       /\ validation' = <<validate_signal(result.ret[1], e)>>
  /\ UNCHANGED <<parse_vars, block, result, calls, line_vars,
                 stop_price, newsignal, results, success_rate>>

\* main(): test_parser(test_price) over signals.txt (content, when it
\* exists) and newsignal.txt, then the success rate
Main ==
  /\ pc = "start"
  /\ \E second \in SecondFiles :
       /\ newsignal' = second
       /\ results' = <<test_parser(IF exists THEN <<content>> ELSE None, second, Num(TestPrice))>>
  /\ success_rate' = SuccessRate(results'[1])
  /\ pc' = "done"
  /\ UNCHANGED <<content, exists, signal_blocks, idx, signals, failed,
                 block, result, calls, line_vars, entry_price, stop_price, validation>>

NextCalls ==
  \/ CallParseSignalText
  \/ CalculateStopPrice
  \/ ValidateSignal
  \/ Main

SpecCalls == Init /\ [][NextCalls]_vars

\* ============================================================ properties
\* a parse_signal_text call has been made: block is its text, result its outcome
Called == calls > 0

\* the call returned a Signal
Accepted == Called /\ result.ret # None

\* the non-blank lines of a text, trimmed, in order
NonBlankLines(text) ==
  LET raw == Split(text, <<NL>>)
  IN SelectSeq([i \in 1..Len(raw) |-> Strip(raw[i])], LAMBDA l : l # <<>>)

\* the values of the lines after the first that start with key, in order
FieldValues(text, key) ==
  LET ls == NonBlankLines(text)
      hits == SelectSeq(SubSeq(ls, 2, Len(ls)), LAMBDA l : StartsWith(l, key))
  IN [i \in 1..Len(hits) |-> Strip(Remove(hits[i], key))]

HasField(text, key) == FieldValues(text, key) # <<>>

\* the value of the last line that starts with key
LastValue(text, key) ==
  LET vs == FieldValues(text, key) IN vs[Len(vs)]

\* the maximal runs of non-whitespace characters of a line
Words(line) ==
  LET starts == {i \in 1..Len(line) :
                   ~IsSpace(line[i]) /\ (i = 1 \/ IsSpace(line[i - 1]))}
      EndOf(i) == CHOOSE j \in i..Len(line) :
                    /\ \A q \in i..j : ~IsSpace(line[q])
                    /\ (j = Len(line) \/ IsSpace(line[j + 1]))
  IN {SubSeq(line, i, EndOf(i)) : i \in starts}

\* BASE/QUOTE: one '/', both sides non-empty, upper-case letters and digits
IsBaseQuote(w) ==
  /\ Cardinality({i \in 1..Len(w) : w[i] = "/"}) = 1
  /\ w[1] # "/"
  /\ w[Len(w)] # "/"
  /\ \A i \in 1..Len(w) : w[i] = "/" \/ IsUpper(w[i]) \/ IsDigit(w[i])

\* a line that is exactly a BASE/QUOTE symbol followed by LONG or SHORT
StrictHeader(line) ==
  \E sym \in Words(line), dir \in {W_LONG, W_SHORT} :
     /\ IsBaseQuote(sym)
     /\ Words(line) = {sym, dir}
     /\ StartsWith(line, sym)
     /\ SubSeq(line, Len(line) - Len(dir) + 1, Len(line)) = dir
     /\ Cardinality({i \in 1..Len(line) : ~IsSpace(line[i])}) = Len(sym) + Len(dir)

\* the text's first non-blank line is a strict header
HasStrictHeader(text) ==
  NonBlankLines(text) # <<>> /\ StrictHeader(NonBlankLines(text)[1])

IsNumberText(v) == float(v) # None

\* a number followed by '%'
IsPercentText(v) ==
  Len(v) >= 2 /\ v[Len(v)] = "%" /\ float(SubSeq(v, 1, Len(v) - 1)) # None

IsMarker(v) == Lower(v) \in {W_market, W_now}

\* every value of the sequence vs satisfies Ok
AllValues(vs, Ok(_)) == \A i \in 1..Len(vs) : Ok(vs[i])

IsEntryText(v) == IsMarker(v) \/ IsNumberText(v)

\* the block has a valid header, a valid Entry line, a valid Target line
\* and no Stop line
ValidButForStop(text) ==
  /\ ~HasField(text, W_Stop)
  /\ HasStrictHeader(text)
  /\ HasField(text, W_Entry)
  /\ AllValues(FieldValues(text, W_Entry), IsEntryText)
  /\ HasField(text, W_Target)
  /\ AllValues(FieldValues(text, W_Target), IsNumberText)

\* ---- C1
\* C1: every Signal parse_signal_text returns has a symbol with exactly one
\* '/' between a non-empty upper-case alphanumeric base and quote, a
\* direction of LONG or SHORT, and a target and a stop that are not None.
C1_AcceptedSignalWellFormed ==
  Accepted =>
    LET sig == result.ret[1]
    IN /\ IsBaseQuote(sig.symbol)
       /\ sig.direction \in {W_LONG, W_SHORT}
       /\ sig.target # None
       /\ sig.stop # None

\* a Signal was returned for the header "A1/B<tab><space>SHORT"
C1_Witness ==
  /\ Accepted
  /\ result.ret[1].symbol = <<"A", "1", "/", "B">>
  /\ result.ret[1].direction = W_SHORT
  /\ result.ret[1].target = <<Num(12)>>

\* ---- C2
\* C2 as stated: a block with a valid header, Entry and Target line and no
\* Stop line is accepted with stop = -(default stop percentage).
C2_Original_DefaultStopSubstituted ==
  (Called /\ ValidButForStop(block)) =>
    (Accepted /\ result.ret[1].stop = <<Neg(Num(DefaultStopPercentage))>>)

\* C2 amended: a block with a valid header, Entry and Target line and no
\* Stop line is rejected; the default stop percentage is never substituted,
\* so every returned Signal took its stop from a Stop line of the block.
C2_MissingStopRejected ==
  /\ (Called /\ ValidButForStop(block)) => result.ret = None
  /\ Accepted => HasField(block, W_Stop)

\* a four-line block (header, Entry, Target, a note) without a Stop line was
\* parsed and rejected
C2_Witness ==
  /\ Called
  /\ ValidButForStop(block)
  /\ Len(NonBlankLines(block)) >= MinLines
  /\ result.ret = None

\* ---- C3
\* C3: no Signal is returned when the block lacks an Entry, a Target or a
\* Stop line, or has a Target line whose value is not a number, or a Stop
\* line whose value is neither a number nor a number followed by '%'.
C3_Claim_MalformedRejected ==
  LET targets == FieldValues(block, W_Target)
      stops == FieldValues(block, W_Stop)
  IN (/\ Called
      /\ \/ ~HasField(block, W_Entry)
         \/ ~HasField(block, W_Target)
         \/ ~HasField(block, W_Stop)
         \/ \E i \in 1..Len(targets) : ~IsNumberText(targets[i])
         \/ \E i \in 1..Len(stops) : ~IsNumberText(stops[i]) /\ ~IsPercentText(stops[i]))
     => result.ret = None

\* ---- C4
\* C4: in a returned Signal a Stop line 'p%' gives stop = -p and
\* stop_percentage = p, a Stop line with a plain number n gives stop = n and
\* no stop_percentage, and stop < 0 exactly when the Stop line was a
\* percentage.
C4_Claim_SignTellsPercentage ==
  (Accepted /\ HasField(block, W_Stop)) =>
    LET v == LastValue(block, W_Stop)
        sig == result.ret[1]
    IN /\ IsPercentText(v) =>
            /\ sig.stop = <<Neg(float(SubSeq(v, 1, Len(v) - 1))[1])>>
            /\ sig.stop_percentage = float(SubSeq(v, 1, Len(v) - 1))
       /\ IsNumberText(v) =>
            /\ sig.stop = float(v)
            /\ sig.stop_percentage = None
       /\ (sig.stop # None /\ LtZero(sig.stop[1])) <=> IsPercentText(v)

\* ---- C5
\* C5: a block whose first non-blank line is not exactly an upper-case
\* BASE/QUOTE symbol followed by LONG or SHORT is rejected, whatever its
\* Entry, Target and Stop lines are.
C5_BadHeaderRejected ==
  (Called /\ ~HasStrictHeader(block)) => result.ret = None

\* the block "AB LONG" over valid Entry, Target and Stop lines was rejected
C5_Witness ==
  /\ Called
  /\ block = Join(<<(<<"A", "B", " ">> \o W_LONG)>> \o Body_9, <<NL>>)
  /\ result.ret = None

\* ---- C6
\* C6: a returned Signal's entry is the block's last Entry value and is
\* either market / now in any case with entry_numeric None, or a numeric
\* text with entry_numeric its value; a block whose last Entry value is
\* neither is rejected.
C6_EntryMarkerOrNumeric ==
  /\ Accepted =>
       LET sig == result.ret[1]
       IN /\ HasField(block, W_Entry)
          /\ sig.entry = LastValue(block, W_Entry)
          /\ \/ IsMarker(sig.entry) /\ sig.entry_numeric = None
             \/ /\ ~IsMarker(sig.entry)
                /\ IsNumberText(sig.entry)
                /\ sig.entry_numeric = float(sig.entry)
  /\ (/\ Called
      /\ HasField(block, W_Entry)
      /\ ~IsMarker(LastValue(block, W_Entry))
      /\ ~IsNumberText(LastValue(block, W_Entry)))
     => result.ret = None

\* a Signal was returned for "Entry: NOW", with no entry_numeric
C6_Witness ==
  /\ Accepted
  /\ result.ret[1].entry = <<"N", "O", "W">>
  /\ result.ret[1].entry_numeric = None

\* ---- C7
\* C7: a text that is empty or only whitespace and newlines is rejected and
\* no exception leaves parse_signal_text.
C7_BlankTextRejected ==
  (Called /\ \A i \in 1..Len(block) : IsSpace(block[i])) =>
    (result.ret = None /\ ~result.raised)

\* parse_signal_text was called on "\n\n\n" and returned None
C7_Witness ==
  /\ Called
  /\ block = <<NL, NL, NL>>
  /\ result = Returned(None)

\* ---- C8
\* parse_file has split the content (signal_blocks is never empty after it)
InParseFile == pc \in {"loop", "done"} /\ signal_blocks # <<>>

\* the outcomes of parse_signal_text on each of the blocks, None for a blank one
Outcomes(blocks) ==
  [i \in 1..Len(blocks) |->
     IF Strip(blocks[i]) = <<>> THEN <<>> ELSE <<parse_signal_text(blocks[i]).ret>>]

\* the Signals among the first n outcomes, in order
RECURSIVE SignalsIn(_, _)
SignalsIn(outs, n) ==
  IF n = 0 THEN <<>>
  ELSE SignalsIn(outs, n - 1) \o (IF outs[n] = <<>> THEN <<>> ELSE outs[n][1])

\* the blocks among the first n whose outcome is a None return, in order
RECURSIVE RejectedIn(_, _, _)
RejectedIn(blocks, outs, n) ==
  IF n = 0 THEN <<>>
  ELSE RejectedIn(blocks, outs, n - 1)
         \o (IF outs[n] = <<<<>>>> THEN <<blocks[n]>> ELSE <<>>)

\* signals and failed are what the first n blocks give one by one
PerBlock(n) ==
  LET outs == Outcomes(SubSeq(signal_blocks, 1, n))
  IN /\ signals = SignalsIn(outs, n)
     /\ failed = RejectedIn(signal_blocks, outs, n)

\* C8: parse_file returns exactly the Signals parse_signal_text returns for
\* each non-blank block on its own, in block order; a rejected block neither
\* ends the loop nor changes what its siblings give.
C8_ParseFileIsPerBlockParse ==
  (InParseFile /\ pc = "done") =>
     /\ idx = Len(signal_blocks) + 1
     /\ signal_blocks = Split(content, <<NL, NL>>)
     /\ PerBlock(Len(signal_blocks))

\* parse_file returned for a document whose first block is rejected and
\* whose second block gave the one Signal
C8_Witness ==
  /\ InParseFile
  /\ pc = "done"
  /\ content = B_bad_target \o <<NL, NL>> \o B_good_AB
  /\ Len(failed) = 1
  /\ Len(signals) = 1
  /\ signals[1].symbol = SYM_AB

\* ---- C9
\* blocks without a blank line inside
SolidBlocks == {b \in BatchBlocks : Len(NonBlankLines(b)) = Len(Split(b, <<NL>>))}

\* parse_file returned for the document b1 sep b2 with the two raw blocks
\* b1 and b2, each parsed on its own
SplitInTwo(seps) ==
  \A b1 \in SolidBlocks, b2 \in SolidBlocks, sep \in seps :
     (InParseFile /\ pc = "done" /\ content = b1 \o sep \o b2) =>
        /\ signal_blocks = <<b1, b2>>
        /\ signals = parse_signal_text(b1).ret \o parse_signal_text(b2).ret

\* C9 as stated: two blocks separated by a blank line, be it empty or of
\* whitespace, are split into exactly two raw blocks and parsed separately.
C9_Original_BlankLineSplits == SplitInTwo({<<NL, NL>>, <<NL, " ", NL>>})

\* C9 amended: two blocks separated by an empty line (two consecutive
\* newline characters) are split into exactly two raw blocks and parsed
\* separately.
C9_EmptyLineSplits == SplitInTwo({<<NL, NL>>})

\* parse_file returned two Signals for two valid blocks an empty line apart
C9_Witness ==
  /\ InParseFile
  /\ pc = "done"
  /\ content = B_good_AB \o <<NL, NL>> \o B_good_XY
  /\ signal_blocks = <<B_good_AB, B_good_XY>>
  /\ Len(signals) = 2
  /\ signals[1].symbol = SYM_AB /\ signals[1].entry = V_10
  /\ signals[2].symbol = SYM_XY /\ signals[2].entry = W_now

\* ---- C10
\* C10: a block whose lower-cased content contains "target reached" never
\* yields a Signal.
C10_Claim_ReportNeverSignal ==
  (Called /\ Find(Lower(block), Lower(L_TargetReached)) # 0) => result.ret = None

\* ---- C11
\* the non-blank blocks of a file (None, or its content)
BlocksOf(file) ==
  IF file = None THEN <<>>
  ELSE SelectSeq(Split(file[1], <<NL, NL>>), LAMBDA b : Strip(b) # <<>>)

\* the non-blank blocks main read from signals.txt and newsignal.txt
BatchBlocksRead == BlocksOf(IF exists THEN <<content>> ELSE None) \o BlocksOf(newsignal)

\* how many of the blocks bs produced a Signal (flag) or none (~flag)
BlockCount(bs, flag) ==
  Cardinality({i \in 1..Len(bs) : (parse_signal_text(bs[i]).ret # None) = flag})

\* accepted / (accepted + failed), as a percentage
Accuracy(accepted, rejected) ==
  FMul(FDiv(Num(accepted), Num(accepted + rejected)), Num(100))

MainRan == results # None

\* C11 (as claimed): once main has run over a batch with at least one
\* non-blank block, the success rate it reports is accepted / (accepted +
\* failed), failed counting every non-blank block that produced no Signal;
\* so with a rejected block in the batch the rate is below 100%.
C11_Claim_RateCountsRejectedBlocks ==
  (MainRan /\ BatchBlocksRead # <<>>) =>
     /\ success_rate = <<Accuracy(BlockCount(BatchBlocksRead, TRUE),
                                  BlockCount(BatchBlocksRead, FALSE))>>
     /\ BlockCount(BatchBlocksRead, FALSE) > 0 => FLt(success_rate[1], Num(100))

\* ---- C12
\* the lines the loop has read so far, in order
LinesRead ==
  IF match = None THEN <<>>
  ELSE LET ls == NonBlankLines(content) IN SubSeq(ls, 2, Len(ls) - Len(rest))

\* a Target line or a Stop line whose value does not convert
TriggersRejection(line) ==
  \/ StartsWith(line, W_Target) /\ float(Strip(Remove(line, W_Target))) = None
  \/ StartsWith(line, W_Stop) /\ _parse_stop(Strip(Remove(line, W_Stop))) = None

\* a Target line or a Stop line whose value converts
ValidTargetOrStop(line) ==
  \/ StartsWith(line, W_Target) /\ float(Strip(Remove(line, W_Target))) # None
  \/ StartsWith(line, W_Stop) /\ _parse_stop(Strip(Remove(line, W_Stop))) # None

\* some line read so far triggered the rejection
Triggered ==
  LET read == LinesRead IN \E i \in 1..Len(read) : TriggersRejection(read[i])

LinesAccepted == line_pc = "returned" /\ ~result.raised /\ Len(result.ret) = 1
LinesRejected == line_pc = "returned" /\ ~result.raised /\ result.ret = None

\* C12: reading the lines of a block in order, the outcome is exactly one
\* of ACCEPTED (one Signal) and REJECTED (no Signal), and from the line that
\* triggers the rejection on the block is REJECTED whatever lines follow it.
C12_RejectedIsTerminal ==
  /\ line_pc = "returned" => (LinesAccepted /\ ~LinesRejected) \/ (LinesRejected /\ ~LinesAccepted)
  /\ Triggered => LinesRejected

\* a block rejected at a malformed line that a valid Target or Stop line follows
C12_Witness ==
  /\ LinesRejected
  /\ Triggered
  /\ \E j \in 1..Len(rest) : ValidTargetOrStop(rest[j])

\* ---- C13
\* calculate_stop_price has been called on the parsed Signal
CalcRan == stop_price # None

\* that call was made on a percentage stop (stored negative)
CalcOnPercentage == CalcRan /\ LtZero(result.ret[1].stop[1])

\* |a|
Magnitude(n) == IF n < 0 THEN -n ELSE n

\* r is e changed by sgn * p percent, up to the rounding of the division
\* and of the multiplication (half a unit each); values in units of 1/Scale
ChangedByPercent(r, e, p, sgn) ==
  r.k = "fin" /\
  Magnitude(100 * Scale * r.v - e.v * (100 * Scale + sgn * p.v)) <= 50 * Scale + 50 * e.v

\* the value returned: e less p percent for LONG, e plus p percent for
\* SHORT, the stop itself for an absolute stop
StopPriceValue ==
  LET sig == result.ret[1]
  IN IF LtZero(sig.stop[1])
     THEN ChangedByPercent(stop_price[1], entry_price[1], Abs(sig.stop[1]),
                           IF sig.direction = W_LONG THEN -1 ELSE 1)
     ELSE stop_price[1] = sig.stop[1]

\* the call was made with 0 < p < 100 and e > 0
InPercentRange ==
  /\ CalcOnPercentage
  /\ FLt(Abs(result.ret[1].stop[1]), Num(100))
  /\ FLt(Num(0), entry_price[1])

\* C13 (as claimed): calculate_stop_price returns e less p percent for LONG,
\* e plus p percent for SHORT and an absolute stop unchanged; for 0 < p < 100
\* and e > 0 the result is strictly below e for LONG, strictly above e for
\* SHORT.
C13_Original_StrictlyBeyondEntry ==
  CalcRan =>
    /\ StopPriceValue
    /\ InPercentRange =>
         IF result.ret[1].direction = W_LONG
         THEN FLt(stop_price[1], entry_price[1])
         ELSE FLt(entry_price[1], stop_price[1])

\* C13 (amended): the same values; for 0 < p < 100 and e > 0 the result is
\* never above e for LONG and never below e for SHORT.
C13_NeverBeyondEntry ==
  CalcRan =>
    /\ StopPriceValue
    /\ InPercentRange =>
         IF result.ret[1].direction = W_LONG
         THEN FLe(stop_price[1], entry_price[1])
         ELSE FGe(stop_price[1], entry_price[1])

\* a SHORT Signal with a percentage stop whose stop price came out above e
C13_Witness ==
  /\ InPercentRange
  /\ result.ret[1].direction = W_SHORT
  /\ FLt(entry_price[1], stop_price[1])

\* ---- C14
\* validate_signal has been called on the parsed Signal
ValidateRan == validation # None

\* a warning about where the stop lies
IsStopWarning(w) == w \in {M_StopLong, M_StopShort, M_StopShortAbsolute}

\* the call was made on a Signal with a numeric entry and a percentage stop
\* p, 0 < p < 100, with a positive entry_price
ValidatedPercentageStop ==
  /\ ValidateRan
  /\ result.ret[1].entry_numeric # None
  /\ LtZero(result.ret[1].stop[1])
  /\ FLt(Abs(result.ret[1].stop[1]), Num(100))
  /\ FLt(Num(0), entry_price[1])

\* C14 (as claimed): validate_signal on an accepted Signal with a numeric
\* entry and a percentage stop p, 0 < p < 100, gives no warning about the
\* place of the stop, whatever positive entry_price it is called with.
C14_Claim_NoStopWarningForPercentage ==
  ValidatedPercentageStop =>
    \A i \in 1..Len(validation[1].warnings) : ~IsStopWarning(validation[1].warnings[i])
====
